---- MODULE Spec2Model ----
(***************************************************************************)
(* State-machine model of the SEGM inference post-processing               *)
(* (src/segm/predictor.py) and of the checkpoint housekeeping              *)
(* (src/utils/utils.py, FilesLimitControl).                                *)
(*                                                                         *)
(* Conventions.                                                            *)
(*  - A point is <<x, y>>; a contour is a sequence of points.              *)
(*  - Probabilities and thresholds are in tenths (0..10 stands for 0..1).  *)
(*  - A float product is kept as the exact rational <<num, den>>; for the  *)
(*    sizes enumerated here the float64 product truncates to the same      *)
(*    integer as the exact one.                                            *)
(*  - cv2.findContours is modelled for masks whose 8-connected foreground  *)
(*    components are filled axis-aligned rectangles (the only masks the    *)
(*    enumerated probability maps produce).                                *)
(***************************************************************************)
EXTENDS Integers, Sequences, FiniteSets, TLC

VARIABLES
    \* ---- get_contours_from_predictions, one call, step by step
    ppc,            \* position inside get_contours_from_predictions
    pred,           \* the class's probability map: pixel -> tenths
    class_params,   \* [threshold, min_area]
    pred_height, pred_width, image_height, image_width,
    mask,           \* result of mask_preprocess
    found,          \* return value of get_contours_from_mask
    contours,       \* the contour arrays after rescale_contours
    bboxes,         \* [contour2bbox(c) for c in contours]
    polygons,       \* return value of reduce_contours_dims
    cv_reversed,    \* the order in which this OpenCV build lists contours
    \* ---- SegmPredictor.__call__
    net,            \* the loaded model: image id -> which output it computes
    channels,       \* number of channels of the model's output
    n_calls,        \* entrypoint calls made so far
    arg,            \* the object the caller passed as images
    pc,             \* position inside __call__
    images,         \* the local list of images
    one_image, preds, img_idx, pred_data,
    result,         \* the value returned
    error,          \* the exception that left __call__, if any
    transform_calls, model_calls,   \* invocations made by the current call
    singles,        \* results returned so far for bare-image calls
    \* ---- FilesLimitControl
    saved_weights_paths, max_weights_to_save,
    disk,           \* the paths at which a file exists
    calls,          \* every save_path passed so far, in call order
    evicted,        \* every path popped so far, in order
    had_file,       \* for each tracked path: did its file exist when registered
    removed         \* the paths printed as removed, in order

postVars == <<ppc, pred, class_params, pred_height, pred_width, image_height,
              image_width, mask, found, contours, bboxes, polygons, cv_reversed>>
callVars == <<net, channels, n_calls, arg, pc, images, one_image, preds, img_idx,
              pred_data, result, error, transform_calls, model_calls, singles>>
fileVars == <<saved_weights_paths, max_weights_to_save, disk, calls, evicted,
              had_file, removed>>
vars == <<postVars, callVars, fileVars>>

----------------------------------------------------------------------------
(* Bounds of the enumerated inputs. *)

MaxBlob == 4        \* largest side of a foreground rectangle, in pixels
MaxMinArea == 10    \* largest configured min_area

----------------------------------------------------------------------------
(* Generic helpers. *)

Min(S) == CHOOSE v \in S : \A u \in S : v <= u
Max(S) == CHOOSE v \in S : \A u \in S : v >= u

Reverse(s) == [i \in 1..Len(s) |-> s[Len(s) + 1 - i]]

----------------------------------------------------------------------------
(* mask_preprocess: pred > threshold, elementwise. *)

mask_preprocess(p, threshold) == [px \in DOMAIN p |-> p[px] > threshold]

----------------------------------------------------------------------------
(* cv2.findContours(mask.astype(np.uint8), RETR_LIST, CHAIN_APPROX_SIMPLE) *)

Foreground(m) == {px \in DOMAIN m : m[px]}

Neighbours8(px) ==
    {<<px[1] + dx, px[2] + dy>> : dx \in {-1, 0, 1}, dy \in {-1, 0, 1}} \ {px}

RECURSIVE Grow(_, _, _)
\* 8-connected flood fill of fg from the frontier
Grow(frontier, seen, fg) ==
    LET next == (UNION {Neighbours8(px) : px \in frontier}) \cap (fg \ seen)
    IN  IF next = {} THEN seen ELSE Grow(next, seen \cup next, fg)

\* the first foreground pixel of a raster scan (rows top to bottom, columns
\* left to right)
RasterFirst(S) ==
    LET y0 == Min({px[2] : px \in S})
    IN  <<Min({px[1] : px \in {q \in S : q[2] = y0}}), y0>>

RECURSIVE Components(_)
\* the 8-connected components, in raster order of their first pixel
Components(fg) ==
    IF fg = {} THEN <<>>
    ELSE LET seed == RasterFirst(fg)
             comp == Grow({seed}, {seed}, fg)
         IN  <<comp>> \o Components(fg \ comp)

\* the border of a filled rectangle under CHAIN_APPROX_SIMPLE: its corner
\* pixels, starting top-left and running down the left side first
BorderOf(comp) ==
    LET x0 == Min({px[1] : px \in comp})
        x1 == Max({px[1] : px \in comp})
        y0 == Min({px[2] : px \in comp})
        y1 == Max({px[2] : px \in comp})
    IN  CASE comp = {<<x, y>> : x \in x0..x1, y \in y0..y1} ->
             IF x0 = x1 /\ y0 = y1 THEN << <<x0, y0>> >>
             ELSE IF x0 = x1 THEN << <<x0, y0>>, <<x0, y1>> >>
             ELSE IF y0 = y1 THEN << <<x0, y0>>, <<x1, y0>> >>
             ELSE << <<x0, y0>>, <<x0, y1>>, <<x1, y1>>, <<x1, y0>> >>

\* one border per component; whether the list runs in the order the raster
\* scan meets the components or in its reverse depends on the OpenCV build
findContours(m, reversed) ==
    LET comps == Components(Foreground(m))
        borders == [i \in 1..Len(comps) |-> BorderOf(comps[i])]
    IN  IF reversed THEN Reverse(borders) ELSE borders

\* cv2.contourArea: the polygon's area by Green's formula; twice the area,
\* to stay in the integers
ContourArea2(c) ==
    LET n == Len(c)
        nxt(i) == IF i = n THEN 1 ELSE i + 1
        RECURSIVE Sum(_)
        Sum(i) == IF i > n THEN 0
                  ELSE c[i][1] * c[nxt(i)][2] - c[nxt(i)][1] * c[i][2] + Sum(i + 1)
        s == Sum(1)
    IN  IF s < 0 THEN -s ELSE s

----------------------------------------------------------------------------
(* get_contours_from_mask *)

\* a strict comparison instead of >=
AreaKeepsStrict(c, min_area) == ContourArea2(c) > 2 * min_area

\* cv2.contourArea(contour) >= min_area
AreaKeeps(c, min_area) == ContourArea2(c) >= 2 * min_area

get_contours_from_mask(m, min_area, reversed) ==
    LET Keep(c) == AreaKeeps(c, min_area)
    IN  SelectSeq(findContours(m, reversed), Keep)

----------------------------------------------------------------------------
(* rescale_contours *)

\* a / b of two ints: a Python float, kept exact
Ratio(a, b) == <<a, b>>

\* int32 element * float
Times(v, r) == <<v * r[1], r[2]>>

\* round-to-nearest instead of truncation
StoreInt32Nearest(q) == (2 * q[1] + q[2]) \div (2 * q[2])

\* contour[:, :, i] = <float array>: NumPy casts the floats to the int32
\* dtype of the contour array, truncating toward zero (values are >= 0)
StoreInt32(q) == q[1] \div q[2]

rescale_contours(cs, pred_h, pred_w, image_h, image_w) ==
    LET y_ratio == Ratio(image_h, pred_h)
        x_ratio == Ratio(image_w, pred_w)
    IN  [k \in 1..Len(cs) |->
            [j \in 1..Len(cs[k]) |->
                << StoreInt32(Times(cs[k][j][1], x_ratio)),
                   StoreInt32(Times(cs[k][j][2], y_ratio)) >>]]

----------------------------------------------------------------------------
(* contour2bbox: cv2.boundingRect of integer points is
   x = min x, y = min y, w = max x - min x + 1, h = max y - min y + 1 *)

boundingRect(c) ==
    LET xs == {c[j][1] : j \in 1..Len(c)}
        ys == {c[j][2] : j \in 1..Len(c)}
    IN  <<Min(xs), Min(ys), Max(xs) - Min(xs) + 1, Max(ys) - Min(ys) + 1>>

\* the far corner taken at the last pixel instead of one past it
contour2bboxInclusive(c) ==
    LET r == boundingRect(c)
    IN  <<r[1], r[2], r[1] + r[3] - 1, r[2] + r[4] - 1>>

contour2bbox(c) ==
    LET r == boundingRect(c)
    IN  <<r[1], r[2], r[1] + r[3], r[2] + r[4]>>

----------------------------------------------------------------------------
(* reduce_contours_dims: int() of every coordinate of the (integer) array *)

PyInt(v) == v

reduce_contours_dims(cs) ==
    [k \in 1..Len(cs) |-> [j \in 1..Len(cs[k]) |-> <<PyInt(cs[k][j][1]), PyInt(cs[k][j][2])>>]]

----------------------------------------------------------------------------
(* get_contours_from_predictions, as one expression *)

get_contours_from_predictions(p, params, pred_h, pred_w, image_h, image_w, reversed) ==
    LET m  == mask_preprocess(p, params.threshold)
        cs == get_contours_from_mask(m, params.min_area, reversed)
        rs == rescale_contours(cs, pred_h, pred_w, image_h, image_w)
    IN  [contours |-> reduce_contours_dims(rs),
         bboxes   |-> [k \in 1..Len(rs) |-> contour2bbox(rs[k])]]

----------------------------------------------------------------------------
(* The inputs enumerated: probability maps whose foreground is a set of
   separated filled rectangles. *)

Pixels(h, w) == {<<x, y>> : x \in 0..(w - 1), y \in 0..(h - 1)}

RectPixels(r) == {<<x, y>> : x \in r.x0..(r.x0 + r.w - 1), y \in r.y0..(r.y0 + r.h - 1)}

Fits(r, h, w) == r.x0 + r.w <= w /\ r.y0 + r.h <= h

\* no pixel of one touches a pixel of the other, diagonals included
Separated(r, q) ==
    \/ r.x0 + r.w < q.x0 \/ q.x0 + q.w < r.x0
    \/ r.y0 + r.h < q.y0 \/ q.y0 + q.h < r.y0

Rects(h, w) ==
    {r \in [x0 : {0, 2}, y0 : {0, 2}, w : 1..MaxBlob, h : 1..MaxBlob] : Fits(r, h, w)}

SecondRects(h, w) ==
    {r \in {[x0 |-> 7, y0 |-> 7, w |-> 2, h |-> 3], [x0 |-> 7, y0 |-> 0, w |-> 3, h |-> 2]} :
        Fits(r, h, w)}

BlobSets(h, w) ==
    {{}} \cup {{r} : r \in Rects(h, w)}
         \cup UNION {{{r, q} : q \in {b \in SecondRects(h, w) : Separated(r, b)}} :
                        r \in {a \in Rects(h, w) : a.w = a.h}}

\* <<background, foreground>> probabilities, in tenths
Levels == {<<0, 10>>, <<0, 5>>, <<6, 10>>, <<2, 6>>}

MapOf(h, w, blobs, level) ==
    [px \in Pixels(h, w) |->
        IF \E r \in blobs : px \in RectPixels(r) THEN level[2] ELSE level[1]]

ProbMaps(h, w) ==
    {MapOf(h, w, B, <<0, 10>>) : B \in BlobSets(h, w)}
    \cup {MapOf(h, w, {[x0 |-> 2, y0 |-> 2, w |-> 4, h |-> 4]}, l) : l \in Levels}

PredShapes == {<<10, 10>>, <<4, 6>>}          \* <<height, width>> of the model output
ImageShapes == {<<20, 20>>, <<15, 10>>, <<5, 15>>}   \* <<height, width>> of raw images
Thresholds == {5}
MinAreas == 0..MaxMinArea

----------------------------------------------------------------------------
(* Idle values of the three groups of variables. *)

PostIdle ==
    /\ ppc = "idle" /\ pred = <<>> /\ class_params = <<>>
    /\ pred_height = 0 /\ pred_width = 0 /\ image_height = 0 /\ image_width = 0
    /\ mask = <<>> /\ found = <<>> /\ contours = <<>> /\ bboxes = <<>>
    /\ polygons = <<>> /\ cv_reversed = FALSE

NoArg == [kind |-> "none", items |-> <<>>]
NoResult == [kind |-> "none", items |-> <<>>]
NoError == [name |-> "none", found |-> "none"]

CallLocalsIdle ==
    /\ images = <<>> /\ one_image = FALSE /\ preds = <<>>
    /\ img_idx = 0 /\ pred_data = <<>> /\ result = NoResult /\ error = NoError
    /\ transform_calls = 0 /\ model_calls = 0

CallIdle ==
    /\ pc = "idle" /\ arg = NoArg /\ net = <<>> /\ channels = 0 /\ n_calls = 0
    /\ singles = {}
    /\ CallLocalsIdle

FileIdle ==
    /\ saved_weights_paths = <<>> /\ max_weights_to_save = 0 /\ disk = {}
    /\ calls = <<>> /\ evicted = <<>> /\ had_file = <<>> /\ removed = <<>>

----------------------------------------------------------------------------
(* SpecPost: one call of get_contours_from_predictions, statement by
   statement, on every enumerated input. *)

InitPost ==
    /\ \E shape \in PredShapes :
          /\ pred_height = shape[1]
          /\ pred_width = shape[2]
          /\ pred \in ProbMaps(shape[1], shape[2])
    /\ \E shape \in ImageShapes : image_height = shape[1] /\ image_width = shape[2]
    /\ class_params \in [threshold : Thresholds, min_area : MinAreas]
    /\ cv_reversed \in BOOLEAN
    /\ ppc = "start"
    /\ mask = <<>> /\ found = <<>> /\ contours = <<>> /\ bboxes = <<>> /\ polygons = <<>>
    /\ CallIdle /\ FileIdle

postInputs == <<pred, class_params, pred_height, pred_width, image_height,
                image_width, cv_reversed>>

\* pred = mask_preprocess(pred, class_params['postprocess']['threshold'])
MaskPreprocess ==
    /\ ppc = "start"
    /\ mask' = mask_preprocess(pred, class_params.threshold)
    /\ ppc' = "masked"
    /\ UNCHANGED <<postInputs, found, contours, bboxes, polygons, callVars, fileVars>>

\* contours = get_contours_from_mask(mask=pred, min_area=...)
GetContoursFromMask ==
    /\ ppc = "masked"
    /\ found' = get_contours_from_mask(mask, class_params.min_area, cv_reversed)
    /\ ppc' = "found"
    /\ UNCHANGED <<postInputs, mask, contours, bboxes, polygons, callVars, fileVars>>

\* contours = rescale_contours(contours=contours, ...)
RescaleContours ==
    /\ ppc = "found"
    /\ contours' = rescale_contours(found, pred_height, pred_width, image_height, image_width)
    /\ ppc' = "rescaled"
    /\ UNCHANGED <<postInputs, mask, found, bboxes, polygons, callVars, fileVars>>

\* bboxes = [contour2bbox(contour) for contour in contours]
Contour2BBoxes ==
    /\ ppc = "rescaled"
    /\ bboxes' = [k \in 1..Len(contours) |-> contour2bbox(contours[k])]
    /\ ppc' = "boxed"
    /\ UNCHANGED <<postInputs, mask, found, contours, polygons, callVars, fileVars>>

\* contours = reduce_contours_dims(contours); return contours, bboxes
ReduceContoursDims ==
    /\ ppc = "boxed"
    /\ polygons' = reduce_contours_dims(contours)
    /\ ppc' = "returned"
    /\ UNCHANGED <<postInputs, mask, found, contours, bboxes, callVars, fileVars>>

NextPost ==
    \/ MaskPreprocess
    \/ GetContoursFromMask
    \/ RescaleContours
    \/ Contour2BBoxes
    \/ ReduceContoursDims

SpecPost == InitPost /\ [][NextPost]_vars

----------------------------------------------------------------------------
(* Claims about get_contours_from_predictions (checked under SpecPost). *)

Rescaled == ppc \in {"rescaled", "boxed", "returned"}
Boxed == ppc \in {"boxed", "returned"}

\* C1 (as stated): rescale_contours does no rounding: every stored coordinate
\* is exactly x * image_width / pred_width, y * image_height / pred_height,
\* fractional part included.
C1_NoRounding ==
    Rescaled =>
        \A k \in 1..Len(found) : \A j \in 1..Len(found[k]) :
            /\ contours[k][j][1] * pred_width = found[k][j][1] * image_width
            /\ contours[k][j][2] * pred_height = found[k][j][2] * image_height

\* C1 (amended): rescale_contours stores x * image_width / pred_width and
\* y * image_height / pred_height truncated toward zero to an integer; the
\* bounding box is computed from those truncated points (far corner one past
\* the largest coordinate) and reduce_contours_dims changes no coordinate.
C1_TruncatedInRescale ==
    /\ Rescaled =>
          /\ Len(contours) = Len(found)
          /\ \A k \in 1..Len(found) :
                /\ Len(contours[k]) = Len(found[k])
                /\ \A j \in 1..Len(found[k]) :
                      LET x == contours[k][j][1]
                          y == contours[k][j][2]
                      IN  /\ x * pred_width <= found[k][j][1] * image_width
                          /\ found[k][j][1] * image_width < (x + 1) * pred_width
                          /\ y * pred_height <= found[k][j][2] * image_height
                          /\ found[k][j][2] * image_height < (y + 1) * pred_height
    /\ Boxed =>
          /\ Len(bboxes) = Len(contours)
          /\ \A k \in 1..Len(contours) :
                LET xs == {contours[k][j][1] : j \in 1..Len(contours[k])}
                    ys == {contours[k][j][2] : j \in 1..Len(contours[k])}
                IN  bboxes[k] = <<Min(xs), Min(ys), Max(xs) + 1, Max(ys) + 1>>
    /\ ppc = "returned" => polygons = contours

\* C1 witness: a returned call in which a non-integer scale factor made
\* rescale_contours drop a fractional part.
C1_Witness ==
    /\ ppc = "returned"
    /\ \E k \in 1..Len(found) : \E j \in 1..Len(found[k]) :
          /\ (found[k][j][1] * image_width) % pred_width # 0
          /\ contours[k][j][1] * pred_width < found[k][j][1] * image_width
          /\ polygons[k][j] = contours[k][j]

\* the scenario of C6
C6_Scenario ==
    /\ pred_height = 10 /\ pred_width = 10
    /\ image_height = 20 /\ image_width = 20
    /\ class_params = [threshold |-> 5, min_area |-> 5]
    /\ pred = [px \in Pixels(10, 10) |->
                 IF px[1] \in 2..5 /\ px[2] \in 2..5 THEN 10 ELSE 0]

Near(a, b) == a - b \in -2..2

\* C6 (as stated): the scenario returns exactly one contour whose bounding
\* box is approximately (4, 4, 16, 16).
C6_BBox16 ==
    (C6_Scenario /\ ppc = "returned") =>
        /\ Len(polygons) = 1
        /\ Len(bboxes) = 1
        /\ Near(bboxes[1][1], 4) /\ Near(bboxes[1][2], 4)
        /\ Near(bboxes[1][3], 16) /\ Near(bboxes[1][4], 16)

\* C6 (amended): the scenario returns exactly one contour, the square with
\* corners (4,4), (4,10), (10,10), (10,4), and its bounding box is exactly
\* (4, 4, 11, 11).
C6_BBox11 ==
    (C6_Scenario /\ ppc = "returned") =>
        /\ polygons = << << <<4, 4>>, <<4, 10>>, <<10, 10>>, <<10, 4>> >> >>
        /\ bboxes = << <<4, 4, 11, 11>> >>

\* C6 witness: the scenario has run to its return.
C6_Witness == C6_Scenario /\ ppc = "returned" /\ Len(bboxes) = 1

AfterFound == ppc \in {"found", "rescaled", "boxed", "returned"}

----------------------------------------------------------------------------
(* SegmPredictor: configuration, collaborators and inputs. *)

MaxImages == 2      \* longest list or tuple passed to the entrypoint
MaxChannels == 3    \* most channels the model output has
MaxCalls == 2       \* entrypoint calls in one run

\* self.config.get_image('height'), self.config.get_image('width')
ConfigImage == [height |-> 4, width |-> 6]

\* self.cls2params: class name -> parameters, in the configuration's order
Cls2Params ==
    << [name |-> "text_line", threshold |-> 5, min_area |-> 0],
       [name |-> "word",      threshold |-> 5, min_area |-> 3] >>

NumClasses == Len(Cls2Params)

\* raw images: arrays of differing native size
Img(i) ==
    CASE i = 1 -> [kind |-> "ndarray", id |-> 1, height |-> 8, width |-> 9]
      [] i = 2 -> [kind |-> "ndarray", id |-> 2, height |-> 6, width |-> 3]

\* an element that is not an image (a file path)
NotImage == [kind |-> "str", id |-> 0, height |-> 0, width |-> 0]

ImageIds == {1, 2}
Elements == {Img(i) : i \in ImageIds} \cup {NotImage}

SeqsUpTo(S, n) == UNION {[1..k -> S] : k \in 0..n}

\* what a caller may pass: one array, a list or tuple of elements, or
\* something else altogether
Args ==
    {[kind |-> "ndarray", items |-> <<Img(i)>>] : i \in ImageIds}
    \cup [kind : {"list", "tuple"}, items : SeqsUpTo(Elements, MaxImages)]
    \cup {[kind |-> k, items |-> <<>>] : k \in {"str", "NoneType"}}

\* the probability maps a channel may hold
BlobA == [x0 |-> 0, y0 |-> 0, w |-> 3, h |-> 3]
BlobB == [x0 |-> 4, y0 |-> 1, w |-> 2, h |-> 3]
ChannelMaps ==
    << MapOf(ConfigImage.height, ConfigImage.width, {BlobA, BlobB}, <<0, 10>>),
       MapOf(ConfigImage.height, ConfigImage.width, {BlobA}, <<1, 9>>),
       MapOf(ConfigImage.height, ConfigImage.width, {}, <<0, 10>>) >>

\* the model in evaluation mode is a function of the image: the output for
\* element e has `channels` channels, channel c holding one of ChannelMaps
NetOutput(e) ==
    LET which == IF e.kind = "ndarray" THEN net[e.id] ELSE 0
    IN  [c \in 1..channels |-> ChannelMaps[((which + c) % Len(ChannelMaps)) + 1]]

----------------------------------------------------------------------------
(* SegmPredictor.__call__ *)

InputKindOkNoTuple(kind) == kind \in {"list", "ndarray"}

\* isinstance(images, (list, tuple)) or isinstance(images, np.ndarray)
InputKindOk(kind) == kind \in {"list", "tuple", "ndarray"}

\* height and width swapped
ImageDimsSwapped(image) == <<image.width, image.height>>

\* img_h, img_w = image.shape[:2]
ImageDims(image) == <<image.height, image.width>>

\* for contour, bbox in zip(contours, bboxes): ... one record per pair
Records(out, cls_name) ==
    [k \in 1..Min({Len(out.contours), Len(out.bboxes)}) |->
        [polygon |-> out.contours[k], bbox |-> out.bboxes[k], class_name |-> cls_name]]

\* records put in front of the list instead of at its end
PutPredictionsFirst(predictions, records) == records \o predictions

\* pred_img['predictions'].append(...) for each record in turn
PutPredictions(predictions, records) == predictions \o records

RECURSIVE ClassLoop(_, _, _, _, _)
\* the loop over enumerate(self.cls2params) from cls_idx on (1-based here);
\* pred[cls_idx] raises IndexError when the output has no such channel
ClassLoop(cls_idx, p, img_h, img_w, predictions) ==
    IF cls_idx > NumClasses THEN [raised |-> FALSE, predictions |-> predictions]
    ELSE IF cls_idx > Len(p) THEN [raised |-> TRUE, predictions |-> predictions]
    ELSE LET cls == Cls2Params[cls_idx]
             out == get_contours_from_predictions(
                        p[cls_idx], cls, ConfigImage.height, ConfigImage.width,
                        img_h, img_w, cv_reversed)
         IN  ClassLoop(cls_idx + 1, p, img_h, img_w,
                       PutPredictions(predictions, Records(out, cls.name)))

RECURSIVE ClassLoopSkipMissing(_, _, _, _, _)
\* a loop that stops quietly at the last channel the output has
ClassLoopSkipMissing(cls_idx, p, img_h, img_w, predictions) ==
    IF cls_idx > NumClasses \/ cls_idx > Len(p)
    THEN [raised |-> FALSE, predictions |-> predictions]
    ELSE LET cls == Cls2Params[cls_idx]
             out == get_contours_from_predictions(
                        p[cls_idx], cls, ConfigImage.height, ConfigImage.width,
                        img_h, img_w, cv_reversed)
         IN  ClassLoopSkipMissing(cls_idx + 1, p, img_h, img_w,
                                  PutPredictions(predictions, Records(out, cls.name)))

AssembleClassesSkipMissing(p, img_h, img_w) == ClassLoopSkipMissing(1, p, img_h, img_w, <<>>)

\* the body of the loop over classes for one image
AssembleClasses(p, img_h, img_w) == ClassLoop(1, p, img_h, img_w, <<>>)

ReturnValueNoUnwrap(single, data) == [kind |-> "list", items |-> data]

\* return pred_data[0] if one_image else pred_data
ReturnValue(single, data) ==
    IF single THEN [kind |-> "dict", items |-> <<data[1]>>]
    ELSE [kind |-> "list", items |-> data]

InitCall ==
    /\ ppc = "idle" /\ pred = <<>> /\ class_params = <<>>
    /\ pred_height = 0 /\ pred_width = 0 /\ image_height = 0 /\ image_width = 0
    /\ mask = <<>> /\ found = <<>> /\ contours = <<>> /\ bboxes = <<>> /\ polygons = <<>>
    /\ cv_reversed \in BOOLEAN
    /\ net \in [ImageIds -> 0..(Len(ChannelMaps) - 1)]
    /\ channels \in 1..MaxChannels
    /\ pc = "idle" /\ arg = NoArg /\ n_calls = 0 /\ singles = {}
    /\ CallLocalsIdle
    /\ FileIdle

\* the caller invokes predictor(images)
Enter ==
    /\ pc \in {"idle", "returned", "raised"}
    /\ n_calls < MaxCalls
    /\ arg' \in Args
    /\ n_calls' = n_calls + 1
    /\ pc' = "dispatch"
    /\ images' = <<>> /\ one_image' = FALSE /\ preds' = <<>> /\ img_idx' = 0
    /\ pred_data' = <<>> /\ result' = NoResult /\ error' = NoError
    /\ transform_calls' = 0 /\ model_calls' = 0
    /\ UNCHANGED <<net, channels, singles, postVars, fileVars>>

\* lines 115-122: the check of the argument's type
Dispatch ==
    /\ pc = "dispatch"
    /\ IF InputKindOk(arg.kind)
       THEN /\ images' = arg.items
            /\ one_image' = (arg.kind \notin {"list", "tuple"})
            /\ pc' = "transform"
            /\ error' = error
       ELSE /\ error' = [name |-> "InputKind", found |-> arg.kind]
            /\ pc' = "raised"
            /\ UNCHANGED <<images, one_image>>
    /\ UNCHANGED <<net, channels, n_calls, arg, preds, img_idx, pred_data, result,
                   transform_calls, model_calls, singles, postVars, fileVars>>

AllImages(items) == \A i \in 1..Len(items) : items[i].kind = "ndarray"

\* line 124: transformed_images = self.transforms(images). A non-empty list of
\* images is turned into a batch; on anything else the transform may raise
TransformOk ==
    /\ pc = "transform"
    /\ transform_calls' = transform_calls + 1
    /\ pc' = "predict"
    /\ UNCHANGED <<net, channels, n_calls, arg, images, one_image, preds, img_idx,
                   pred_data, result, error, model_calls, singles, postVars, fileVars>>

TransformRaises ==
    /\ pc = "transform"
    /\ ~AllImages(images) \/ images = <<>>
    /\ transform_calls' = transform_calls + 1
    /\ error' = [name |-> "TransformError", found |-> "none"]
    /\ pc' = "raised"
    /\ UNCHANGED <<net, channels, n_calls, arg, images, one_image, preds, img_idx,
                   pred_data, result, model_calls, singles, postVars, fileVars>>

\* line 125-127: preds = predict(...); pred_data = []
Predict ==
    /\ pc = "predict"
    /\ model_calls' = model_calls + 1
    /\ preds' = [i \in 1..Len(images) |-> NetOutput(images[i])]
    /\ pred_data' = <<>>
    /\ img_idx' = 1
    /\ pc' = "loop"
    /\ UNCHANGED <<net, channels, n_calls, arg, images, one_image, result, error,
                   transform_calls, singles, postVars, fileVars>>

\* lines 128-153: one iteration of the loop over zip(images, preds)
AssembleImage ==
    /\ pc = "loop"
    /\ img_idx <= Min({Len(images), Len(preds)})
    /\ LET image == images[img_idx]
       IN  IF image.kind # "ndarray"
           THEN \* image.shape: no such attribute
                /\ error' = [name |-> "AttributeError", found |-> image.kind]
                /\ pc' = "raised"
                /\ UNCHANGED <<pred_data, img_idx>>
           ELSE LET dims == ImageDims(image)
                    img_h == dims[1]
                    img_w == dims[2]
                    done == AssembleClasses(preds[img_idx], img_h, img_w)
                IN  IF done.raised
                    THEN /\ error' = [name |-> "IndexError", found |-> "none"]
                         /\ pc' = "raised"
                         /\ UNCHANGED <<pred_data, img_idx>>
                    ELSE /\ pred_data' = Append(pred_data,
                                [image |-> [height |-> img_h, width |-> img_w],
                                 predictions |-> done.predictions])
                         /\ img_idx' = img_idx + 1
                         /\ UNCHANGED <<pc, error>>
    /\ UNCHANGED <<net, channels, n_calls, arg, images, one_image, preds, result,
                   transform_calls, model_calls, singles, postVars, fileVars>>

\* lines 155-158
Return ==
    /\ pc = "loop"
    /\ img_idx > Min({Len(images), Len(preds)})
    /\ result' = ReturnValue(one_image, pred_data)
    /\ pc' = "returned"
    /\ singles' = IF arg.kind = "ndarray"
                  THEN singles \cup {[image |-> arg.items[1], result |-> result']}
                  ELSE singles
    /\ UNCHANGED <<net, channels, n_calls, arg, images, one_image, preds, img_idx,
                   pred_data, error, transform_calls, model_calls, postVars, fileVars>>

Next ==
    \/ Enter
    \/ Dispatch
    \/ TransformOk
    \/ TransformRaises
    \/ Predict
    \/ AssembleImage
    \/ Return

Spec == InitCall /\ [][Next]_vars

----------------------------------------------------------------------------
(* Claims about SegmPredictor.__call__ (checked under Spec). *)

Dispatched == pc \notin {"idle", "dispatch"}

\* one image, or a list or tuple holding images only
ImageOrImages(a) ==
    \/ a.kind = "ndarray"
    \/ a.kind \in {"list", "tuple"} /\ AllImages(a.items)

\* C2 (as stated): every input that is neither one image nor a homogeneous
\* collection of images is rejected with the input-kind error before the
\* transform or the model is invoked, and no result is produced.
C2_RejectsNonImages ==
    (Dispatched /\ ~ImageOrImages(arg)) =>
        /\ error.name = "InputKind"
        /\ transform_calls = 0 /\ model_calls = 0
        /\ result = NoResult

\* C2 (amended): the input-kind error is raised, naming type(images), before
\* the transform or the model is invoked and without a result, exactly when
\* the argument itself is neither a list, a tuple nor an np.ndarray; the
\* elements of a list or tuple are not inspected, so a list or tuple holding a
\* non-image passes the check and is handed to the transform.
C2_RejectsByContainerOnly ==
    Dispatched =>
        /\ error.name = "InputKind" <=> arg.kind \notin {"list", "tuple", "ndarray"}
        /\ error.name = "InputKind" =>
              /\ error.found = arg.kind
              /\ pc = "raised"
              /\ transform_calls = 0 /\ model_calls = 0
              /\ result = NoResult /\ pred_data = <<>>
        /\ (arg.kind \in {"list", "tuple"} /\ pc # "transform") =>
              transform_calls = 1 /\ images = arg.items

\* C2 witness: a list holding a non-image went past the check into the
\* transform, and what came out is not the input-kind error.
C2_Witness ==
    /\ pc = "raised"
    /\ arg.kind = "list" /\ ~AllImages(arg.items)
    /\ transform_calls = 1
    /\ error.name # "InputKind"

FromConfiguredChannels(e) ==
    ClassLoop(1, SubSeq(NetOutput(e), 1, NumClasses), e.height, e.width, <<>>).predictions

C4_SingleListSymmetry ==
    (pc = "returned" /\ arg.kind \in {"list", "tuple"} /\ Len(arg.items) = 1) =>
        \A s \in singles :
            s.image = arg.items[1] =>
                /\ s.result.kind = "dict"
                /\ result.kind = "list"
                /\ Len(result.items) = 1
                /\ result.items = s.result.items

\* C4 witness: [image] returned after image itself was returned, with
\* predictions in it.
C4_Witness ==
    /\ pc = "returned" /\ arg.kind = "list" /\ Len(arg.items) = 1
    /\ \E s \in singles : s.image = arg.items[1] /\ s.result.kind = "dict"
    /\ result.items[1].predictions # <<>>

ClassIndex(name) == CHOOSE c \in 1..NumClasses : Cls2Params[c].name = name

OfClass(predictions, name) ==
    LET Is(r) == r.class_name = name
    IN  SelectSeq(predictions, Is)

\* what get_contours_from_predictions returns for class c of element e, as
\* records in the order returned
ClassRecords(e, c) ==
    Records(get_contours_from_predictions(
                NetOutput(e)[c], Cls2Params[c], ConfigImage.height, ConfigImage.width,
                e.height, e.width, cv_reversed),
            Cls2Params[c].name)

\* C5: for a collection there is one ImagePrediction per input image, in
\* input order; its predictions are ordered by class in configuration order
\* and, within a class, in the order the contours were returned.
C5_Order ==
    (pc = "returned" /\ arg.kind \in {"list", "tuple"}) =>
        /\ result.kind = "list"
        /\ Len(result.items) = Len(arg.items)
        /\ \A i \in 1..Len(result.items) :
              LET ps == result.items[i].predictions
              IN  /\ \A a, b \in 1..Len(ps) :
                        a < b => ClassIndex(ps[a].class_name) <= ClassIndex(ps[b].class_name)
                  /\ \A c \in 1..NumClasses :
                        OfClass(ps, Cls2Params[c].name) = ClassRecords(arg.items[i], c)

\* C5 witness: two images returned, the first with records of both classes
\* and two contours in one class.
C5_Witness ==
    /\ pc = "returned" /\ arg.kind = "list" /\ Len(arg.items) = 2
    /\ arg.items[1] # arg.items[2]
    /\ LET ps == result.items[1].predictions
       IN  /\ Len(OfClass(ps, Cls2Params[1].name)) = 2
           /\ Len(OfClass(ps, Cls2Params[2].name)) = 1

\* C8: every image of a batch is rescaled with its own raw height and width,
\* and the 'image' entry of its result reports those dimensions.
C8_OwnDimensions ==
    pc = "returned" =>
        \A i \in 1..Len(result.items) :
            LET e == images[i]
                ps == result.items[i].predictions
            IN  /\ result.items[i].image = [height |-> e.height, width |-> e.width]
                /\ \A k \in 1..Len(ps) :
                      LET c == ClassIndex(ps[k].class_name)
                          own == get_contours_from_predictions(
                                     preds[i][c], Cls2Params[c], ConfigImage.height,
                                     ConfigImage.width, e.height, e.width, cv_reversed)
                      IN  \E n \in 1..Len(own.contours) :
                              /\ ps[k].polygon = own.contours[n]
                              /\ ps[k].bbox = own.bboxes[n]

\* C8 witness: a batch of two images of differing size returned, each with
\* predictions.
C8_Witness ==
    /\ pc = "returned" /\ Len(images) = 2
    /\ images[1].height # images[2].height /\ images[1].width # images[2].width
    /\ result.items[1].predictions # <<>>
    /\ result.items[2].predictions # <<>>

----------------------------------------------------------------------------
(* FilesLimitControl (checked under SpecFiles). *)

MaxLimit == 2           \* largest max_weights_to_save constructed
MaxRegistrations == 4   \* calls of FilesLimitControl.__call__ in one run

Paths == {"a.ckpt", "b.ckpt", "c.ckpt"}

\* the limit test made one entry too early
OverLimitEarly(paths, limit) == Len(paths) >= limit

\* len(self.saved_weights_paths) > self.max_weights_to_save
OverLimit(paths, limit) == Len(paths) > limit

\* __init__(max_weights_to_save)
InitFiles ==
    /\ saved_weights_paths = <<>>
    /\ max_weights_to_save \in 0..MaxLimit
    /\ disk = {}
    /\ calls = <<>> /\ evicted = <<>> /\ had_file = <<>> /\ removed = <<>>
    /\ PostIdle /\ CallIdle

\* the training loop writes a checkpoint file
SaveFile ==
    /\ \E path \in Paths : disk' = disk \cup {path}
    /\ disk' # disk
    /\ UNCHANGED <<saved_weights_paths, max_weights_to_save, calls, evicted, had_file,
                   removed, postVars, callVars>>

\* __call__(save_path)
Register ==
    /\ Len(calls) < MaxRegistrations
    /\ \E save_path \in Paths :
          LET appended == Append(saved_weights_paths, save_path)
              files == Append(had_file, save_path \in disk)
          IN  /\ calls' = Append(calls, save_path)
              /\ IF OverLimit(appended, max_weights_to_save)
                 THEN LET old_weights_path == Head(appended)
                      IN  /\ saved_weights_paths' = Tail(appended)
                          /\ had_file' = Tail(files)
                          /\ evicted' = Append(evicted, old_weights_path)
                          /\ IF old_weights_path \in disk     \* os.path.exists
                             THEN /\ disk' = disk \ {old_weights_path}   \* os.remove
                                  /\ removed' = Append(removed, old_weights_path)
                             ELSE UNCHANGED <<disk, removed>>
                 ELSE /\ saved_weights_paths' = appended
                      /\ had_file' = files
                      /\ UNCHANGED <<evicted, disk, removed>>
    /\ UNCHANGED <<max_weights_to_save, postVars, callVars>>

NextFiles ==
    \/ SaveFile
    \/ Register

SpecFiles == InitFiles /\ [][NextFiles]_vars

LastOf(s, n) == SubSeq(s, Len(s) - n + 1, Len(s))

\* C9: saved_weights_paths is the most recent min(k, max_weights_to_save)
\* paths passed, in call order, so never longer than max_weights_to_save; the
\* paths evicted are the oldest ones, at most one per call, and an evicted
\* path has no file on disk when the call returns.
C9_KeepsMostRecent ==
    /\ [](/\ saved_weights_paths =
                LastOf(calls, Min({Len(calls), max_weights_to_save}))
          /\ Len(saved_weights_paths) <= max_weights_to_save
          /\ evicted \o saved_weights_paths = calls)
    /\ [][Len(calls') = Len(calls) + 1 =>
             /\ Len(evicted') \in {Len(evicted), Len(evicted) + 1}
             /\ Len(evicted') = Len(evicted) + 1 =>
                   /\ evicted'[Len(evicted')] =
                         Head(Append(saved_weights_paths, calls'[Len(calls')]))
                   /\ evicted'[Len(evicted')] \notin disk'
                   /\ disk' = disk \ {evicted'[Len(evicted')]}
             /\ Len(evicted') = Len(evicted) => disk' = disk]_vars

\* C9 witness: four paths passed under a limit of two; the two oldest were
\* evicted, the file of the second was removed, the newest file is kept.
C9_Witness ==
    /\ max_weights_to_save = 2
    /\ Len(calls) = 4
    /\ Len(evicted) = 2
    /\ removed # <<>> /\ removed[Len(removed)] = evicted[2]
    /\ evicted[2] \notin disk
    /\ saved_weights_paths[2] \in disk /\ saved_weights_paths[2] # evicted[2]

\* C10: every tracked path whose file existed when it was registered still
\* has its file on disk.
C10_TrackedFilesKept ==
    \A i \in 1..Len(saved_weights_paths) :
        had_file[i] => saved_weights_paths[i] \in disk

====
